---- MODULE Spec2Model ----
(***************************************************************************)
(* The Jira client of src/jira-client.js: a constructor that configures    *)
(* one axios instance, and six async methods that each issue one request   *)
(* through it and return a field of the response.                          *)
(*                                                                         *)
(* JavaScript values are modelled as follows.  An object is a record whose *)
(* DOMAIN is the set of its properties that are not undefined, so that a   *)
(* destructuring default applies exactly when the key is not in DOMAIN.    *)
(* What a promise settles with is a tagged record: the tag names the kind  *)
(* of JavaScript value and a field of its own holds the payload.           *)
(***************************************************************************)
EXTENDS Integers, Sequences, FiniteSets, TLC

VARIABLES
    options,   \* the argument the constructor was called with
    jira,      \* the client object: this.version and this.baseClient
    calls,     \* one frame per method call of the client
    network    \* the requests handed to axios, in order, with their outcome

vars == <<options, jira, calls, network>>

\* Number of method calls made on the client in one execution.
MaxCalls == 2

Calls == 1..MaxCalls

-----------------------------------------------------------------------------
(* JavaScript values *)

EmptyObject == [k \in {} |-> TRUE]

Undefined == [tag |-> "undefined"]
Array(a) == [tag |-> "array", items |-> a]
Object(o) == [tag |-> "object", fields |-> o]
Failure(e) == [tag |-> "error", error |-> e]

\* response.data.<k>: the property, or undefined when the body has none
Prop(o, k) == IF k \in DOMAIN o THEN Array(o[k]) ELSE Undefined

\* `${o.k}` in a template literal: an undefined value prints as "undefined"
Template(o, k) == IF k \in DOMAIN o THEN o[k] ELSE "undefined"

\* a method argument: nothing at all, or an options object
NoArgument == [given |-> FALSE]
Given(o) == [given |-> TRUE, options |-> o]

-----------------------------------------------------------------------------
(* The constructor *)

DefaultVersion == 3

constructorPlainHttp(opts) ==
    LET version == IF "version" \in DOMAIN opts THEN opts.version ELSE DefaultVersion
    IN  [ version    |-> version,
          baseClient |-> [ baseURL |-> "http://" \o opts.host
                                         \o ".atlassian.net/rest/api/" \o ToString(version),
                           auth    |-> [ username |-> opts.user,
                                         password |-> opts.token ] ] ]

constructor(opts) ==
    LET version == IF "version" \in DOMAIN opts THEN opts.version ELSE DefaultVersion
    IN  [ version    |-> version,
          baseClient |-> [ baseURL |-> "https://" \o opts.host
                                         \o ".atlassian.net/rest/api/" \o ToString(version),
                           auth    |-> [ username |-> opts.user,
                                         password |-> opts.token ] ] ]

ConstructorOptions ==
    { [host |-> "yourhost", user |-> "jhn@doe.com", token |-> "secret"],
      [host |-> "acme", user |-> "ann@acme.io", token |-> "t0ken", version |-> 2] }

-----------------------------------------------------------------------------
(* The requests the methods build (everything up to the await) *)

DefaultCategoryId == 1000
ProjectsMaxResults == 200
SearchMaxResults == 100
UsersMaxResults == 200
DefaultFields == <<"summary", "status", "assignee", "timetracking">>
ProjectExpand == "issueTypes,lead,description"

\* baseClient.get(url, config) and baseClient.post(url, data)
Get(url, config) == [verb |-> "GET", url |-> url, config |-> config]
Post(url, data) == [verb |-> "POST", url |-> url, data |-> data]

\* axios serialises config.params, and nothing else of the config, into the
\* query string of the request
QueryParams(request) ==
    IF request.verb = "GET" /\ "params" \in DOMAIN request.config
    THEN request.config.params
    ELSE EmptyObject

projectsRequestNoDefault(o) ==
    LET categoryId == IF "categoryId" \in DOMAIN o THEN o.categoryId ELSE 0
        maxResults == ProjectsMaxResults
    IN  Get("project/search", [params |-> [categoryId |-> categoryId, maxResults |-> maxResults]])

projectsRequest(o) ==
    LET categoryId == IF "categoryId" \in DOMAIN o THEN o.categoryId ELSE DefaultCategoryId
        maxResults == ProjectsMaxResults
    IN  Get("project/search", [params |-> [categoryId |-> categoryId, maxResults |-> maxResults]])

projectRequest(o) ==
    Get("project/" \o Template(o, "projectKey"), [expand |-> ProjectExpand])

searchRequestNoDefault(o) ==
    LET fields == IF "fields" \in DOMAIN o THEN o.fields ELSE <<>>
    IN  Post("search", [jql |-> o.jql, maxResults |-> SearchMaxResults, fields |-> fields])

searchRequest(o) ==
    LET fields == IF "fields" \in DOMAIN o THEN o.fields ELSE DefaultFields
    IN  Post("search", [jql |-> o.jql, maxResults |-> SearchMaxResults, fields |-> fields])

projectRolesRequest(o) ==
    Get("project/" \o Template(o, "projectKey") \o "/role/" \o Template(o, "role"), EmptyObject)

usersByGroupRequest(o) ==
    Get("group/member", [params |-> [groupname |-> o.groupname,
                                     maxResults |-> UsersMaxResults,
                                     includeInactiveUsers |-> TRUE]])

categoriesRequest == Get("projectCategory", EmptyObject)

-----------------------------------------------------------------------------
(* What the methods return from the response (everything after the await) *)

projectsReturn(response) == Prop(response.data, "values")
projectReturn(response) == Object(response.data)
searchReturn(response) == Prop(response.data, "issues")
projectRolesReturn(response) == Prop(response.data, "actors")
usersByGroupReturn(response) == Prop(response.data, "values")
categoriesReturnData(response) == Object(response.data)
categoriesReturn(response) == Undefined

Return(method, response) ==
    CASE method = "projects"     -> projectsReturn(response)
      [] method = "project"      -> projectReturn(response)
      [] method = "search"       -> searchReturn(response)
      [] method = "projectRoles" -> projectRolesReturn(response)
      [] method = "usersByGroup" -> usersByGroupReturn(response)
      [] method = "categories"   -> categoriesReturn(response)

\* a rejected await throws the rejection reason; no method has a try/catch,
\* so the async function's promise rejects with that very value
RethrowTranslated(error) == Failure("JiraError")
Rethrow(error) == Failure(error)

\* destructuring the parameter of a call made with no argument throws
DestructuringError == Failure("TypeError")

-----------------------------------------------------------------------------
(* The inputs *)

ProjectsArguments == { NoArgument, Given(EmptyObject), Given([categoryId |-> 7]) }
ProjectArguments == { Given([projectKey |-> "JS"]), Given(EmptyObject) }
SearchArguments == { Given([jql |-> "project = JS"]),
                     Given([jql |-> "project = JS", fields |-> <<"summary">>]) }
ProjectRolesArguments == { Given([projectKey |-> "JS", role |-> "10002"]) }
UsersByGroupArguments == { Given([groupname |-> "developers"]) }

\* bodies of 2xx responses (JSON objects), and the failures of the HTTP layer
Bodies == { [values |-> <<"a", "b">>, issues |-> <<"i">>, actors |-> <<"u">>],
            [name |-> "n"] }
HttpErrors == { "Network Error", "Request failed with status code 404" }

-----------------------------------------------------------------------------
(* The state machine *)

Idle == [pc |-> "idle"]
InFlight == [status |-> "inflight"]

Init ==
    /\ options \in ConstructorOptions
    /\ jira = constructor(options)
    /\ calls = [c \in Calls |-> Idle]
    /\ network = <<>>

\* the promise the call's await waits on: the one its own get/post returned
AwaitedShared(c) ==
    network[CHOOSE i \in DOMAIN network : network[i].outcome.status # "inflight"].outcome
AwaitedOutcome(c) == network[calls[c].request].outcome

\* the synchronous part of a method that takes an options object
Invoke(c, method, argument, request) ==
    /\ IF argument.given
       THEN /\ network' = Append(network, [call |-> c, request |-> request, outcome |-> InFlight])
            /\ calls' = [calls EXCEPT ![c] = [pc |-> "awaiting", method |-> method,
                                              argument |-> argument,
                                              request |-> Len(network) + 1]]
       ELSE /\ calls' = [calls EXCEPT ![c] = [pc |-> "rejected", method |-> method,
                                              argument |-> argument,
                                              result |-> DestructuringError]]
            /\ UNCHANGED network
    /\ UNCHANGED <<options, jira>>

\* call frames are numbered in the order the calls are made
Callable(c) ==
    /\ calls[c].pc = "idle"
    /\ \A d \in Calls : d < c => calls[d].pc # "idle"

Options(argument) == IF argument.given THEN argument.options ELSE EmptyObject

projects(c) ==
    /\ Callable(c)
    /\ \E a \in ProjectsArguments : Invoke(c, "projects", a, projectsRequest(Options(a)))

project(c) ==
    /\ Callable(c)
    /\ \E a \in ProjectArguments : Invoke(c, "project", a, projectRequest(Options(a)))

search(c) ==
    /\ Callable(c)
    /\ \E a \in SearchArguments : Invoke(c, "search", a, searchRequest(Options(a)))

projectRoles(c) ==
    /\ Callable(c)
    /\ \E a \in ProjectRolesArguments : Invoke(c, "projectRoles", a, projectRolesRequest(Options(a)))

usersByGroup(c) ==
    /\ Callable(c)
    /\ \E a \in UsersByGroupArguments : Invoke(c, "usersByGroup", a, usersByGroupRequest(Options(a)))

categories(c) ==
    /\ Callable(c)
    /\ Invoke(c, "categories", Given(EmptyObject), categoriesRequest)

\* the HTTP layer settles a request: a 2xx response with a body ...
HttpFulfil(i) ==
    /\ network[i].outcome.status = "inflight"
    /\ \E body \in Bodies :
         network' = [network EXCEPT ![i].outcome = [status |-> "fulfilled",
                                                    response |-> [data |-> body]]]
    /\ UNCHANGED <<options, jira, calls>>

\* ... or a failure (no connection, a non-2xx status)
HttpReject(i) ==
    /\ network[i].outcome.status = "inflight"
    /\ \E e \in HttpErrors :
         network' = [network EXCEPT ![i].outcome = [status |-> "rejected", error |-> e]]
    /\ UNCHANGED <<options, jira, calls>>

\* the method resumes after its await
Resume(c) ==
    /\ calls[c].pc = "awaiting"
    /\ network[calls[c].request].outcome.status # "inflight"
    /\ LET outcome == AwaitedOutcome(c)
       IN  calls' = [calls EXCEPT ![c] =
                IF outcome.status = "fulfilled"
                THEN [pc |-> "resolved", method |-> calls[c].method,
                      argument |-> calls[c].argument,
                      result |-> Return(calls[c].method, outcome.response)]
                ELSE [pc |-> "rejected", method |-> calls[c].method,
                      argument |-> calls[c].argument,
                      result |-> Rethrow(outcome.error)]]
    /\ UNCHANGED <<options, jira, network>>

Next ==
    \/ \E c \in Calls : projects(c)
    \/ \E c \in Calls : project(c)
    \/ \E c \in Calls : search(c)
    \/ \E c \in Calls : projectRoles(c)
    \/ \E c \in Calls : usersByGroup(c)
    \/ \E c \in Calls : categories(c)
    \/ \E i \in DOMAIN network : HttpFulfil(i)
    \/ \E i \in DOMAIN network : HttpReject(i)
    \/ \E c \in Calls : Resume(c)

Spec == Init /\ [][Next]_vars

-----------------------------------------------------------------------------
(* Vocabulary of the properties *)

RequestsOf(c) == { i \in DOMAIN network : network[i].call = c }
Started(c) == calls[c].pc # "idle"
Completed(c) == calls[c].pc \in {"resolved", "rejected"}
Has(c, k) == calls[c].argument.given /\ k \in DOMAIN calls[c].argument.options

-----------------------------------------------------------------------------
(* Properties *)

\* C1: when the request a call issued fails, the call rejects with exactly
\* the failure of the HTTP layer (it never resolves, and once the failure has
\* arrived nothing but the rejection is left to do), and that request stays
\* the only one the call has issued.
C1_FailurePropagates ==
    \A i \in DOMAIN network :
        LET c == network[i].call IN
        network[i].outcome.status = "rejected" =>
            /\ RequestsOf(c) = {i}
            /\ calls[c].pc \in {"awaiting", "rejected"}
            /\ calls[c].pc = "awaiting" => ENABLED Resume(c)
            /\ calls[c].pc = "rejected" =>
                 calls[c].result = [tag |-> "error", error |-> network[i].outcome.error]

C1_Witness ==
    \E i \in DOMAIN network :
        /\ network[i].outcome.status = "rejected"
        /\ network[i].outcome.error = "Request failed with status code 404"
        /\ calls[network[i].call].pc = "rejected"
        /\ calls[network[i].call].method = "search"

\* C2: project({projectKey}) issues one GET to project/{projectKey} whose
\* query parameters carry expand = 'issueTypes,lead,description', and
\* resolves to the whole response body.
C2_ProjectExpands ==
    \A c \in Calls :
        Started(c) /\ calls[c].method = "project" /\ Has(c, "projectKey") =>
            \E i \in DOMAIN network :
                /\ RequestsOf(c) = {i}
                /\ network[i].request.verb = "GET"
                /\ network[i].request.url = "project/" \o calls[c].argument.options.projectKey
                /\ QueryParams(network[i].request) = [expand |-> "issueTypes,lead,description"]
                /\ network[i].outcome.status = "fulfilled" /\ Completed(c) =>
                     calls[c].result = [tag |-> "object",
                                        fields |-> network[i].outcome.response.data]

\* C3: projects() called with no argument issues the project/search request
\* with categoryId 1000 instead of failing before any request is sent.
C3_ProjectsWithoutArgument ==
    \A c \in Calls :
        Started(c) /\ calls[c].method = "projects" /\ ~calls[c].argument.given =>
            \E i \in DOMAIN network :
                /\ RequestsOf(c) = {i}
                /\ network[i].request.url = "project/search"
                /\ QueryParams(network[i].request).categoryId = 1000

\* C4: projects(options) issues one GET to project/search whose query
\* parameters are exactly categoryId (1000 when the options omit it) and
\* maxResults = 200, and resolves to the values of the response body.
C4_ProjectsRequest ==
    \A c \in Calls :
        Started(c) /\ calls[c].method = "projects" /\ calls[c].argument.given =>
            \E i \in DOMAIN network :
                /\ RequestsOf(c) = {i}
                /\ network[i].request.verb = "GET"
                /\ network[i].request.url = "project/search"
                /\ QueryParams(network[i].request) =
                     [ categoryId |-> IF Has(c, "categoryId")
                                      THEN calls[c].argument.options.categoryId
                                      ELSE 1000,
                       maxResults |-> 200 ]
                /\ network[i].outcome.status = "fulfilled" /\ Completed(c) =>
                     LET body == network[i].outcome.response.data IN
                     calls[c].result = IF "values" \in DOMAIN body
                                       THEN [tag |-> "array", items |-> body.values]
                                       ELSE [tag |-> "undefined"]

C4_Witness ==
    \E c \in Calls :
        /\ calls[c].pc = "resolved"
        /\ calls[c].method = "projects"
        /\ calls[c].argument.given
        /\ ~Has(c, "categoryId")
        /\ calls[c].result = [tag |-> "array", items |-> <<"a", "b">>]

\* C5: categories() resolves to the project categories, that is to the body
\* of the response to its request.
C5_CategoriesReturned ==
    \A c \in Calls :
        calls[c].pc = "resolved" /\ calls[c].method = "categories" =>
            \E i \in RequestsOf(c) :
                calls[c].result = [tag |-> "object",
                                   fields |-> network[i].outcome.response.data]

C7_SearchRequest ==
    \A c \in Calls :
        Started(c) /\ calls[c].method = "search" =>
            \E i \in DOMAIN network :
                /\ RequestsOf(c) = {i}
                /\ network[i].request.verb = "POST"
                /\ network[i].request.url = "search"
                /\ network[i].request.data =
                     [ jql        |-> calls[c].argument.options.jql,
                       maxResults |-> 100,
                       fields     |-> IF Has(c, "fields")
                                      THEN calls[c].argument.options.fields
                                      ELSE <<"summary", "status", "assignee", "timetracking">> ]
                /\ network[i].outcome.status = "fulfilled" /\ Completed(c) =>
                     LET body == network[i].outcome.response.data IN
                     calls[c].result = IF "issues" \in DOMAIN body
                                       THEN [tag |-> "array", items |-> body.issues]
                                       ELSE [tag |-> "undefined"]

C7_Witness ==
    \E c \in Calls :
        /\ calls[c].pc = "resolved"
        /\ calls[c].method = "search"
        /\ ~Has(c, "fields")
        /\ calls[c].result = [tag |-> "array", items |-> <<"i">>]

\* C8: the constructor builds a base client whose base URL is
\* https://{host}.atlassian.net/rest/api/{version} and whose basic-auth
\* credentials are username = user and password = token; with version
\* omitted the URL and the stored version use 3.
C8_Construction ==
    LET version == IF "version" \in DOMAIN options THEN options.version ELSE 3 IN
    /\ jira.version = version
    /\ jira.baseClient.baseURL =
         "https://" \o options.host \o ".atlassian.net/rest/api/" \o ToString(version)
    /\ "version" \notin DOMAIN options =>
         jira.baseClient.baseURL = "https://" \o options.host \o ".atlassian.net/rest/api/3"
    /\ jira.baseClient.auth = [username |-> options.user, password |-> options.token]

C8_Witness ==
    /\ "version" \notin DOMAIN options
    /\ jira.version = 3
    /\ jira.baseClient.baseURL = "https://yourhost.atlassian.net/rest/api/3"
    /\ \E c \in Calls : Completed(c)

\* C9: every call issues exactly one request between its invocation and its
\* completion: a completed call has issued one, and no call ever has issued
\* more than one.
C9_ExactlyOneRequest ==
    \A c \in Calls :
        /\ Cardinality(RequestsOf(c)) <= 1
        /\ Completed(c) => Cardinality(RequestsOf(c)) = 1

\* C10: under every interleaving of pending calls and every order of arrival
\* of the responses, a call settles with what its method extracts from the
\* outcome of its own request, and no step changes the client's version or
\* baseClient.
C10_OwnOutcome ==
    \A c \in Calls :
        Completed(c) /\ RequestsOf(c) # {} =>
            \E i \in RequestsOf(c) :
                \/ /\ network[i].outcome.status = "fulfilled"
                   /\ calls[c].pc = "resolved"
                   /\ calls[c].result = Return(calls[c].method, network[i].outcome.response)
                \/ /\ network[i].outcome.status = "rejected"
                   /\ calls[c].pc = "rejected"
                   /\ calls[c].result = [tag |-> "error", error |-> network[i].outcome.error]

====
